---- MODULE Spec2Model ----
(***************************************************************************)
(* A model of contigtree.py: the record locator (linehunter / findleft /   *)
(* decode_fasta) over the bytes of a FASTA file, the link parser, the      *)
(* recursive tree builder (buildtree) and the main driver with its         *)
(* last-write-wins dictionary of segments.                                 *)
(*                                                                         *)
(* Text is modelled as sequences of one-character strings; byte offsets    *)
(* are 0-based as in Python, so the byte at offset i of m is m[i + 1].     *)
(***************************************************************************)
EXTENDS Integers, Sequences, FiniteSets, TLC

VARIABLES
    file,       \* the records written to the input file
    m,          \* the bytes of the file, as mapped by linehunter
    target,     \* linehunter: the identifier looked for
    lh,         \* linehunter: the frame of the call
    off,        \* findleft: the position passed in
    fl,         \* findleft: what it returned or raised
    fpc,        \* findleft: "call" before, "done" after
    maxdepth,   \* args.depth
    targets,    \* args.targets
    segments,   \* the list populated by buildtree
    stack,      \* the frames of the nested buildtree calls
    mpc,        \* position of the main program
    mi,         \* number of the top-level buildtree call, from 1
    seg0,       \* segments as passed to the current top-level call
    ret,        \* value returned by the last top-level buildtree call
    uniq,       \* the dict of segments by ID
    err         \* the exception that ended the program

locVars == <<target, lh>>
findVars == <<off, fl, fpc>>
buildVars == <<maxdepth, targets, segments, stack, mpc, mi, seg0, ret, uniq, err>>
vars == <<file, m, locVars, findVars, buildVars>>

(***************************************************************************)
(* Bounds of the model.                                                    *)
(***************************************************************************)
MaxRecs == 3      \* records in a file searched by the locator
MaxId == 11       \* largest identifier written to such a file
MaxToks == 2      \* header tokens in a file walked by the tree builder
MaxDepth == 2     \* largest search depth given to the tree builder

(***************************************************************************)
(* Program constants.                                                      *)
(***************************************************************************)
MaxJumps == 100   \* contigtree.py:86  "if jumps>100"
NearWindow == 10  \* contigtree.py:76  "1 <= (target - foundline) < 10"

NL == "\n"
DigitChars == <<"0", "1", "2", "3", "4", "5", "6", "7", "8", "9">>

Min(a, b) == IF a < b THEN a ELSE b
SetMax(S) == CHOOSE x \in S : \A y \in S : y <= x

(***************************************************************************)
(* Python exceptions: a type, the message and (for the locator's own       *)
(* failure) the target carried as second argument.                         *)
(***************************************************************************)
NoErr == [type |-> "", msg |-> "", arg |-> -1]
Exc(t, s) == [type |-> t, msg |-> s, arg |-> -1]
ExcArg(t, s, a) == [type |-> t, msg |-> s, arg |-> a]

(***************************************************************************)
(* str / bytes primitives used by the program.                             *)
(***************************************************************************)
IsSpace(c) == c \in {" ", NL}

RECURSIVE lstrip(_)
lstrip(s) == IF s = <<>> THEN s
             ELSE IF IsSpace(Head(s)) THEN lstrip(Tail(s)) ELSE s

RECURSIVE rstrip(_)
rstrip(s) == IF s = <<>> THEN s
             ELSE IF IsSpace(s[Len(s)]) THEN rstrip(SubSeq(s, 1, Len(s) - 1))
             ELSE s

\* str.strip()
strip(s) == rstrip(lstrip(s))

\* str.split(): split on runs of whitespace, no empty fields
RECURSIVE SplitWs(_, _)
SplitWs(s, cur) ==
    IF s = <<>> THEN (IF cur = <<>> THEN <<>> ELSE <<cur>>)
    ELSE IF IsSpace(Head(s))
         THEN (IF cur = <<>> THEN SplitWs(Tail(s), <<>>)
               ELSE <<cur>> \o SplitWs(Tail(s), <<>>))
         ELSE SplitWs(Tail(s), Append(cur, Head(s)))

split(s) == SplitWs(s, <<>>)

\* str.split(sep): every separator ends a (possibly empty) field
RECURSIVE SplitOn(_, _, _)
SplitOn(s, sep, cur) ==
    IF s = <<>> THEN <<cur>>
    ELSE IF Head(s) = sep THEN <<cur>> \o SplitOn(Tail(s), sep, <<>>)
         ELSE SplitOn(Tail(s), sep, Append(cur, Head(s)))

\* str.startswith(prefix)
startswith(s, prefix) ==
    Len(s) >= Len(prefix) /\ SubSeq(s, 1, Len(prefix)) = prefix

IsDigit(c) == \E d \in 1..10 : DigitChars[d] = c
DigitVal(c) == (CHOOSE d \in 1..10 : DigitChars[d] = c) - 1

RECURSIVE DigitsVal(_)
DigitsVal(s) == IF s = <<>> THEN 0
                ELSE 10 * DigitsVal(SubSeq(s, 1, Len(s) - 1)) + DigitVal(s[Len(s)])

AllDigits(s) == s # <<>> /\ \A i \in 1..Len(s) : IsDigit(s[i])

\* int(text): an optional sign and decimal digits; anything else is a ValueError
IntOk(s) == \/ AllDigits(s)
            \/ (s # <<>> /\ Head(s) \in {"+", "-"} /\ AllDigits(Tail(s)))
IntVal(s) == IF AllDigits(s) THEN DigitsVal(s)
             ELSE IF Head(s) = "-" THEN 0 - DigitsVal(Tail(s))
             ELSE DigitsVal(Tail(s))

\* str(n) for n >= 0, as the file's writer renders identifiers
RECURSIVE Digits(_)
Digits(n) == IF n < 10 THEN <<DigitChars[n + 1]>>
             ELSE Digits(n \div 10) \o <<DigitChars[(n % 10) + 1]>>

(***************************************************************************)
(* The input file: records of an identifier, header tokens and a sequence, *)
(* written as two lines each.                                              *)
(***************************************************************************)
\* A header token is a link L:<d1>:<tgt>:<d2> or some other text.
Link(d1, tgt, d2) == [kind |-> "link", d1 |-> d1, tgt |-> tgt, d2 |-> d2,
                      text |-> <<>>]
Raw(text) == [kind |-> "raw", d1 |-> "", tgt |-> -1, d2 |-> "", text |-> text]

TokenText(tok) ==
    IF tok.kind = "link"
    THEN <<"L", ":", tok.d1, ":">> \o Digits(tok.tgt) \o <<":", tok.d2>>
    ELSE tok.text

RECURSIVE JoinTokens(_)
JoinTokens(toks) == IF toks = <<>> THEN <<>>
                    ELSE <<" ">> \o TokenText(Head(toks)) \o JoinTokens(Tail(toks))

HeaderText(rec) == <<">">> \o Digits(rec.id) \o JoinTokens(rec.toks)

RecordBytes(rec) == HeaderText(rec) \o <<NL>> \o rec.seq \o <<NL>>

RECURSIVE FileBytes(_)
FileBytes(recs) == IF recs = <<>> THEN <<>>
                   ELSE RecordBytes(Head(recs)) \o FileBytes(Tail(recs))

\* byte offset at which record k of the file starts
RecordStart(recs, k) == Len(FileBytes(SubSeq(recs, 1, k - 1)))

FileIds(recs) == {recs[k].id : k \in 1..Len(recs)}

(***************************************************************************)
(* mmap primitives.                                                        *)
(***************************************************************************)
\* m.rfind(ch, lo, hi): the highest offset in [lo, hi) holding ch, else -1;
\* hi is clamped to the size of the map (hi is never negative here).
rfind(mm, ch, lo, hi) ==
    LET S == {i \in lo..(Min(hi, Len(mm)) - 1) : mm[i + 1] = ch}
    IN IF S = {} THEN -1 ELSE SetMax(S)

\* m.seek(p) accepts 0 <= p <= len(m); otherwise ValueError
SeekOk(mm, p) == 0 <= p /\ p <= Len(mm)

\* m.readline() at cursor cur: the bytes up to and including the next
\* newline (or up to the end of the map) and the cursor after them
readline(mm, cur) ==
    LET S == {i \in cur..(Len(mm) - 1) : mm[i + 1] = NL}
        end == IF S = {} THEN Len(mm)
               ELSE (CHOOSE i \in S : \A j \in S : i <= j) + 1
    IN [line |-> SubSeq(mm, cur + 1, end), cursor |-> end]

(***************************************************************************)
(* decode_fasta(m): reads a pair of lines from the current position.       *)
(***************************************************************************)
decode_fasta(mm, cur) ==
    LET l1 == readline(mm, cur)
        l2 == readline(mm, l1.cursor)
        header == strip(l1.line)
        seq == strip(l2.line)
        header_parts == split(header)
        bad(e) == [err |-> e, cursor |-> l2.cursor, line_ID |-> -1,
                   header |-> header, seq |-> seq]
    IN IF header_parts = <<>>
       THEN bad(Exc("IndexError", "list index out of range"))
       ELSE IF ~startswith(header_parts[1], <<">">>)
       THEN bad(Exc("ValueError", "Malformed header line"))
       ELSE IF ~IntOk(Tail(header_parts[1]))
       THEN bad(Exc("ValueError", "invalid literal for int()"))
       ELSE [err |-> NoErr, cursor |-> l2.cursor,
             line_ID |-> IntVal(Tail(header_parts[1])),
             header |-> header, seq |-> seq]

(***************************************************************************)
(* findleft(pos, m): seeks to the last '>' in m[0:pos] and decodes there.  *)
(***************************************************************************)
findleft(pos, mm, cur) ==
    LET r == rfind(mm, ">", 0, pos)
    IN IF ~SeekOk(mm, r)
       THEN [err |-> Exc("ValueError", "seek out of range"), cursor |-> cur,
             pos |-> pos, foundline |-> -1, header |-> <<>>, seq |-> <<>>]
       ELSE LET d == decode_fasta(mm, r)
            IN [err |-> d.err, cursor |-> d.cursor, pos |-> r,
                foundline |-> d.line_ID, header |-> d.header, seq |-> d.seq]

(***************************************************************************)
(* linehunter(target, filename): finds a target ID in the FASTA file.      *)
(* lh is the frame of one call: the file object f and the map mm (TRUE     *)
(* while open), the map's read cursor, and the locals jumps, pos,          *)
(* foundline, header and seq.                                              *)
(***************************************************************************)
LhFrame == [pc |-> "call", f |-> FALSE, mm |-> FALSE, cursor |-> 0,
            jumps |-> 0, pos |-> -1, foundline |-> -1,
            header |-> <<>>, seq |-> <<>>, err |-> NoErr]

LhRaise(st, e) == [st EXCEPT !.pc = "failed", !.err = e]

\* lines 70-74: open, map, and read the last record of the file
LhStart(mm, st) ==
    LET o == [st EXCEPT !.f = TRUE, !.mm = TRUE, !.cursor = 0, !.jumps = 0]
        r == findleft(Len(mm), mm, 0)
    IN IF r.err # NoErr THEN LhRaise([o EXCEPT !.cursor = r.cursor], r.err)
       ELSE [o EXCEPT !.pc = "loop", !.cursor = r.cursor, !.pos = r.pos,
                      !.foundline = r.foundline, !.header = r.header,
                      !.seq = r.seq]

\* line 75: the loop condition
LhLooping(tgt, st) == st.pc = "loop" /\ st.foundline # tgt

\* line 76: the target is a few records ahead
LhNear(tgt, st) == 1 <= tgt - st.foundline /\ tgt - st.foundline < NearWindow

\* lines 85-87: count the iteration and give up after MaxJumps of them
LhCount(tgt, st) ==
    LET c == [st EXCEPT !.jumps = @ + 1]
    IN IF c.jumps > MaxJumps
       THEN LhRaise(c, ExcArg("IndexError", "Failed to find line", tgt))
       ELSE c

\* lines 77-78, 85-87: read the next pair of lines at the cursor
LhRead(mm, tgt, st) ==
    LET d == decode_fasta(mm, st.cursor)
    IN IF d.err # NoErr THEN LhRaise([st EXCEPT !.cursor = d.cursor], d.err)
       ELSE LhCount(tgt, [st EXCEPT !.cursor = d.cursor,
                                    !.foundline = d.line_ID,
                                    !.header = d.header, !.seq = d.seq])

\* The triples (target, pos, foundline) of the model's range for which the
\* double-precision value of target*(pos/foundline) lies just below the
\* exact integer quotient, so that int() truncates to one less.
FloatShort == {<<7, 61, 7>>, <<11, 15, 11>>, <<11, 30, 11>>, <<11, 49, 11>>,
               <<11, 60, 11>>, <<13, 15, 13>>, <<13, 30, 13>>, <<13, 60, 13>>,
               <<13, 63, 13>>, <<14, 61, 7>>, <<14, 61, 14>>, <<15, 41, 5>>,
               <<15, 49, 3>>}

\* lines 82-83: int(target * (pos / foundline)) for foundline # 0
JumpTo(tgt, pos, foundline) ==
    IF <<tgt, pos, foundline>> \in FloatShort
    THEN ((tgt * pos) \div foundline) - 1
    ELSE (tgt * pos) \div foundline

\* lines 81-87: extrapolate a position and read the record left of it
LhJump(mm, tgt, st) ==
    IF st.foundline = 0
    THEN LhRaise(st, Exc("ZeroDivisionError", "division by zero"))
    ELSE LET r == findleft(JumpTo(tgt, st.pos, st.foundline), mm, st.cursor)
         IN IF r.err # NoErr
            THEN LhRaise([st EXCEPT !.cursor = r.cursor], r.err)
            ELSE LhCount(tgt, [st EXCEPT !.cursor = r.cursor, !.pos = r.pos,
                                         !.foundline = r.foundline,
                                         !.header = r.header, !.seq = r.seq])

\* lines 88-89: close the map and return pos, header, seq
LhReturn(st) == [st EXCEPT !.pc = "done", !.mm = FALSE]

\* one step of the body of linehunter from the loop test
LhStep(mm, tgt, st) ==
    IF st.pc = "call" THEN LhStart(mm, st)
    ELSE IF st.foundline = tgt THEN LhReturn(st)
    ELSE IF LhNear(tgt, st) THEN LhRead(mm, tgt, st)
    ELSE LhJump(mm, tgt, st)

\* a whole call of linehunter, as made by buildtree: the steps from the
\* call to the return or the exception (each frame is bound before the
\* next step is taken from it)
RECURSIVE linehunter(_, _, _)
linehunter(mm, tgt, st) ==
    IF st.pc \in {"done", "failed"} THEN st
    ELSE CHOOSE r \in {linehunter(mm, tgt, nxt) : nxt \in {LhStep(mm, tgt, st)}} : TRUE

(***************************************************************************)
(* The files searched by the locator: up to MaxRecs records with strictly  *)
(* increasing identifiers in 0..MaxId, no header tokens, and a sequence    *)
(* line of one of two lengths.                                             *)
(***************************************************************************)
SeqPool == {<<"A">>, <<"A", "C", "G", "T">>}

IdLists == {s \in UNION {[1..n -> 0..MaxId] : n \in 1..MaxRecs} :
               \A i \in 1..(Len(s) - 1) : s[i] < s[i + 1]}

LocateFiles ==
    UNION {{[k \in 1..Len(ids) |-> [id |-> ids[k], toks |-> <<>>, seq |-> sq[k]]] :
               sq \in [1..Len(ids) -> SeqPool]} : ids \in IdLists}

Targets == 0..(MaxId + 1)

\* findleft has not returned yet
FlNone == [err |-> NoErr, cursor |-> 0, pos |-> -1, foundline |-> -1,
           header |-> <<>>, seq |-> <<>>]

\* the variables of the parts of the program that are not running
LocIdle == target = 0 /\ lh = LhFrame
FindIdle == off = 0 /\ fl = FlNone /\ fpc = "idle"
BuildIdle ==
    /\ maxdepth = 0 /\ targets = <<>> /\ segments = <<>> /\ stack = <<>>
    /\ mpc = "idle" /\ mi = 0 /\ seg0 = <<>> /\ ret = <<>>
    /\ uniq = <<>> /\ err = NoErr

(***************************************************************************)
(* The locator, one call of linehunter at a time.                          *)
(***************************************************************************)
Init ==
    /\ file \in LocateFiles
    /\ m = FileBytes(file)
    /\ target \in Targets
    /\ lh = LhFrame
    /\ FindIdle
    /\ BuildIdle

Start ==
    /\ lh.pc = "call"
    /\ lh' = LhStart(m, lh)
    /\ UNCHANGED <<file, m, target, findVars, buildVars>>

Read ==
    /\ LhLooping(target, lh)
    /\ LhNear(target, lh)
    /\ lh' = LhRead(m, target, lh)
    /\ UNCHANGED <<file, m, target, findVars, buildVars>>

Jump ==
    /\ LhLooping(target, lh)
    /\ ~LhNear(target, lh)
    /\ lh' = LhJump(m, target, lh)
    /\ UNCHANGED <<file, m, target, findVars, buildVars>>

\* On return the map is closed by the program; the file object is never
\* closed by it and is released only if the runtime collects it.
Return ==
    /\ lh.pc = "loop"
    /\ lh.foundline = target
    /\ \E collected \in BOOLEAN :
          lh' = [LhReturn(lh) EXCEPT !.f = ~collected]
    /\ UNCHANGED <<file, m, target, findVars, buildVars>>

Next == Start \/ Read \/ Jump \/ Return

Spec == Init /\ [][Next]_vars

(***************************************************************************)
(* findleft on its own: one call at any position from 0 to the size of     *)
(* the file, the read cursor being at the start of the map.                *)
(***************************************************************************)
InitFind ==
    /\ file \in LocateFiles
    /\ m = FileBytes(file)
    /\ off \in 0..Len(FileBytes(file))
    /\ fl = FlNone
    /\ fpc = "call"
    /\ LocIdle
    /\ BuildIdle

Find ==
    /\ fpc = "call"
    /\ fl' = findleft(off, m, 0)
    /\ fpc' = "done"
    /\ UNCHANGED <<file, m, off, locVars, buildVars>>

NextFind == Find

SpecFind == InitFind /\ [][NextFind]_vars

(***************************************************************************)
(* parse_link(text)                                                        *)
(***************************************************************************)
parse_link(text) ==
    LET bits == SplitOn(text, ":", <<>>)
        bad(e) == [err |-> e, other |-> -1, reverse_this |-> FALSE,
                   reverse_other |-> FALSE]
    IN IF Len(bits) # 4
       THEN bad(Exc("ValueError", "Unable to parse link"))
       ELSE IF ~IntOk(bits[3])
       THEN bad(Exc("ValueError", "invalid literal for int()"))
       ELSE [err |-> NoErr, other |-> IntVal(bits[3]),
             reverse_this |-> bits[2] = <<"-">>,
             reverse_other |-> bits[4] = <<"-">>]

(***************************************************************************)
(* reverse_complement(sequence)                                            *)
(***************************************************************************)
Complement(c) ==
    CASE c = "A" -> "T"
      [] c = "T" -> "A"
      [] c = "C" -> "G"
      [] c = "G" -> "C"
      [] OTHER -> c

reverse_complement(sequence) ==
    [i \in 1..Len(sequence) |-> Complement(sequence[Len(sequence) + 1 - i])]

(***************************************************************************)
(* Segment and make_name: the name is the index into the table of names.   *)
(***************************************************************************)
NumNames == 85

make_name(id) == id % NumNames

Segment(ID, flipped, header, seq) ==
    [ID |-> ID, flipped |-> flipped, header |-> header, seq |-> seq,
     length |-> Len(seq), name |-> make_name(ID)]

(***************************************************************************)
(* buildtree(filename, segments, ID, maxdepth, flip_flag, depth).          *)
(* A frame of the recursion holds the arguments, this_segment, link_data,  *)
(* the index i of the next link of the for loop, and branches.             *)
(***************************************************************************)
IsLinkToken(part) == startswith(part, <<"L", ":">>)

\* a segment is listed only the first time its ID is visited
ListedOnce(segs, this_segment) ==
    IF \E k \in 1..Len(segs) : segs[k].ID = this_segment.ID THEN segs
    ELSE Append(segs, this_segment)

\* line 116: segments.append(this_segment)
Listed(segs, this_segment) == Append(segs, this_segment)

\* lines 112-121: from the result r of linehunter to the list of link tokens
BtBody(r, segs, ID, flip_flag, depth) ==
    LET seq == IF flip_flag THEN reverse_complement(r.seq) ELSE r.seq
        this_segment == Segment(ID, flip_flag, r.header, seq)
        parts == split(r.header)
        frame == [ID |-> ID, flip_flag |-> flip_flag, depth |-> depth,
                  this_segment |-> this_segment,
                  link_data |-> SelectSeq(parts, IsLinkToken),
                  i |-> 1, branches |-> <<>>]
    IN IF r.pc = "failed"
       THEN [err |-> r.err, segments |-> segs, frame |-> frame]
       ELSE IF parts = <<>>
       THEN [err |-> Exc("IndexError", "list index out of range"),
             segments |-> Listed(segs, this_segment), frame |-> frame]
       ELSE IF ~startswith(parts[1], <<">">>)
       THEN [err |-> Exc("ValueError", "Malformed header line"),
             segments |-> Listed(segs, this_segment), frame |-> frame]
       ELSE [err |-> NoErr, segments |-> Listed(segs, this_segment),
             frame |-> frame]

\* lines 111-121: the call of linehunter and what follows it
BtEnter(mm, segs, ID, flip_flag, depth) ==
    CHOOSE e \in {BtBody(r, segs, ID, flip_flag, depth) :
                     r \in {linehunter(mm, ID, LhFrame)}} : TRUE

\* the links are looked at one level too deep
ExpandingInclusive(fr, maxd) == fr.link_data # <<>> /\ fr.depth <= maxd

\* line 122: whether the links of the frame are looked at
Expanding(fr, maxd) == fr.link_data # <<>> /\ fr.depth < maxd

\* line 123: the for loop has a link left
InLoop(fr, maxd) == Expanding(fr, maxd) /\ fr.i <= Len(fr.link_data)

\* the far side of the link is compared instead of the near side
LinkMatchesOther(p, flip_flag) == p.reverse_other = flip_flag

\* line 125: the link leaves this segment on the side being walked
LinkMatches(p, flip_flag) == p.reverse_this = flip_flag

\* line 127: the value returned
BtResult(fr) == <<fr.this_segment, fr.branches>>

\* line 137: {segment.ID: segment for segment in segments}: the segments
\* are put into the dict in list order, each under its ID
DictPutFirst(d, s) ==
    [k \in (DOMAIN d) \cup {s.ID} |-> IF k \in DOMAIN d THEN d[k] ELSE s]

DictPut(d, s) == [k \in (DOMAIN d) \cup {s.ID} |-> IF k = s.ID THEN s ELSE d[k]]

RECURSIVE DictUpTo(_, _)
DictUpTo(segs, n) ==
    IF n = 0 THEN <<>>
    ELSE CHOOSE r \in {DictPut(d, segs[n]) : d \in {DictUpTo(segs, n - 1)}} : TRUE

SegmentDict(segs) == DictUpTo(segs, Len(segs))

(***************************************************************************)
(* The files walked by the tree builder: records 1 and 2, whose headers    *)
(* carry at most MaxToks tokens between them: links in either direction    *)
(* to record 1, 2 or the missing record 3, a link with another direction   *)
(* symbol, a link token of three fields, and a token that is not a link.   *)
(***************************************************************************)
BuildIds == {1, 2}

TokenPool ==
    {Link(d1, t, d2) : d1 \in {"+", "-"}, t \in BuildIds, d2 \in {"+", "-"}}
    \cup {Link("+", 3, "+"), Link("-", 3, "-"), Link("x", 1, "x"),
          Raw(<<"L", ":", "+", ":", "1">>), Raw(<<"K", "C", ":", "i", ":", "5">>)}

TokSeqs(n) == UNION {[1..k -> TokenPool] : k \in 0..n}

BuildFiles ==
    UNION {{<<[id |-> 1, toks |-> t1, seq |-> <<"A", "C">>],
              [id |-> 2, toks |-> t2, seq |-> <<"G", "N", "T">>]>> :
               t2 \in TokSeqs(MaxToks - Len(t1))} : t1 \in TokSeqs(MaxToks)}

(***************************************************************************)
(* The main program: buildtree forwards and in reverse from every target,  *)
(* then the dict of the unique segments.                                   *)
(***************************************************************************)
InitBuild ==
    /\ file \in BuildFiles
    /\ m = FileBytes(file)
    /\ maxdepth \in 0..MaxDepth
    /\ targets \in {<<t>> : t \in BuildIds}
    /\ segments = <<>>
    /\ stack = <<>>
    /\ mpc = "main"
    /\ mi = 1
    /\ seg0 = <<>>
    /\ ret = <<>>
    /\ uniq = <<>>
    /\ err = NoErr
    /\ LocIdle
    /\ FindIdle

Top == stack[Len(stack)]

\* lines 131-135: the next top-level call, forwards (odd mi) or reverse
Call ==
    /\ mpc = "main"
    /\ mi <= 2 * Len(targets)
    /\ \E e \in {BtEnter(m, segments, targets[(mi + 1) \div 2], mi % 2 = 0, 0)} :
          /\ segments' = e.segments
          /\ seg0' = segments
          /\ IF e.err # NoErr
             THEN mpc' = "failed" /\ err' = e.err /\ stack' = stack
             ELSE mpc' = "build" /\ err' = err /\ stack' = <<e.frame>>
    /\ UNCHANGED <<file, m, locVars, findVars, maxdepth, targets, mi, ret, uniq>>

\* lines 123-126: the next link matches the side walked: recurse into it
Follow ==
    /\ mpc = "build"
    /\ InLoop(Top, maxdepth)
    /\ \E p \in {parse_link(Top.link_data[Top.i])} :
          /\ p.err = NoErr
          /\ LinkMatches(p, Top.flip_flag)
          /\ \E e \in {BtEnter(m, segments, p.other, p.reverse_other, Top.depth + 1)} :
                /\ segments' = e.segments
                /\ IF e.err # NoErr
                   THEN mpc' = "failed" /\ err' = e.err /\ stack' = stack
                   ELSE /\ mpc' = mpc /\ err' = err
                        /\ stack' = Append([stack EXCEPT ![Len(stack)].i = @ + 1],
                                           e.frame)
    /\ UNCHANGED <<file, m, locVars, findVars, maxdepth, targets, mi, seg0, ret, uniq>>

\* lines 123-125: the next link is for the other side: pass over it
Skip ==
    /\ mpc = "build"
    /\ InLoop(Top, maxdepth)
    /\ \E p \in {parse_link(Top.link_data[Top.i])} :
          /\ p.err = NoErr
          /\ ~LinkMatches(p, Top.flip_flag)
    /\ stack' = [stack EXCEPT ![Len(stack)].i = @ + 1]
    /\ UNCHANGED <<file, m, locVars, findVars, maxdepth, targets, segments, mpc, mi, seg0, ret, uniq, err>>

\* line 124: the next link does not parse
LinkError ==
    /\ mpc = "build"
    /\ InLoop(Top, maxdepth)
    /\ \E p \in {parse_link(Top.link_data[Top.i])} :
          /\ p.err # NoErr
          /\ err' = p.err
    /\ mpc' = "failed"
    /\ UNCHANGED <<file, m, locVars, findVars, maxdepth, targets, segments, stack, mi, seg0, ret, uniq>>

\* line 127 and line 126 of the caller: return the segment and its branches
BtReturn ==
    /\ mpc = "build"
    /\ ~InLoop(Top, maxdepth)
    /\ IF Len(stack) > 1
       THEN /\ stack' = [SubSeq(stack, 1, Len(stack) - 1) EXCEPT
                            ![Len(stack) - 1].branches = Append(@, BtResult(Top))]
            /\ UNCHANGED <<mpc, mi, ret>>
       ELSE /\ stack' = <<>>
            /\ ret' = BtResult(Top)
            /\ mpc' = "main"
            /\ mi' = mi + 1
    /\ UNCHANGED <<file, m, locVars, findVars, maxdepth, targets, segments, seg0, uniq, err>>

\* line 137: keep the unique segments
Dedupe ==
    /\ mpc = "main"
    /\ mi > 2 * Len(targets)
    /\ uniq' = SegmentDict(segments)
    /\ mpc' = "done"
    /\ UNCHANGED <<file, m, locVars, findVars, maxdepth, targets, segments, stack, mi, seg0, ret, err>>

NextBuild == Call \/ Follow \/ Skip \/ LinkError \/ BtReturn \/ Dedupe

SpecBuild == InitBuild /\ [][NextBuild]_vars

(***************************************************************************)
(* What was written to the file, for stating the properties.               *)
(***************************************************************************)
RecordOf(id) == file[CHOOSE k \in 1..Len(file) : file[k].id = id]

RecordStarts == {RecordStart(file, k) : k \in 1..Len(file)}

Finished == lh.pc \in {"done", "failed"}

NotFound(tgt) == ExcArg("IndexError", "Failed to find line", tgt)

(***************************************************************************)
(* The locator.                                                            *)
(***************************************************************************)
\* C1: for a file with increasing identifiers and a target present in it,
\* linehunter does not fail, makes at most 100 iterations, and returns the
\* header text and the sequence text written for the target.
C1_LocatePresent ==
    target \in FileIds(file) =>
        /\ lh.pc # "failed"
        /\ lh.jumps <= MaxJumps
        /\ lh.pc = "done" => /\ lh.header = HeaderText(RecordOf(target))
                             /\ lh.seq = RecordOf(target).seq

\* C2: for a target that is not in the file, linehunter never returns, and
\* when it fails it fails with the locator's own error carrying the target,
\* raised on exhausting the iteration budget, and with no other error.
C2_AbsentNotFound ==
    target \notin FileIds(file) =>
        /\ lh.pc # "done"
        /\ lh.pc = "failed" => lh.err = NotFound(target) /\ lh.jumps > MaxJumps

\* C7: when linehunter has returned or failed, neither the file object nor
\* the map it opened is still open.
C7_Released == Finished => ~lh.f /\ ~lh.mm

\* C8: linehunter makes at most 100 iterations, and the locator's own error
\* is raised only while the identifier last read differs from the target.
C8_IterationBudget ==
    /\ lh.jumps <= MaxJumps
    /\ lh.err = NotFound(target) => lh.foundline # target

\* C9: once the first record is read, pos is the byte offset of the record
\* whose identifier, header and sequence are held in foundline, header and
\* seq, after a next-record read as well as after a jump.
C9_AnchorOffset ==
    lh.pc \in {"loop", "done"} =>
        \E k \in 1..Len(file) :
            /\ lh.pos = RecordStart(file, k)
            /\ lh.foundline = file[k].id
            /\ lh.header = HeaderText(file[k])
            /\ lh.seq = file[k].seq

\* C6: for every position from 0 to the size of the file, findleft does not
\* fail and lands on the greatest record start at or before the position.
C6_BoundaryAtOrBefore ==
    fpc = "done" =>
        /\ fl.err = NoErr
        /\ fl.pos = SetMax({b \in RecordStarts : b <= off})

(***************************************************************************)
(* The tree builder.                                                       *)
(***************************************************************************)
IsLink(tok) == tok.kind = "link"

\* the links written in the header of record id, in header order
WrittenLinks(id) == SelectSeq(RecordOf(id).toks, IsLink)

\* the (target, orientation) pairs of the first n of the links, in order,
\* that leave the record on the side walked when its orientation is flipped
RECURSIVE LinksOnSide(_, _, _)
LinksOnSide(links, n, flipped) ==
    IF n = 0 THEN <<>>
    ELSE IF (links[n].d1 = "-") = flipped
         THEN Append(LinksOnSide(links, n - 1, flipped),
                     <<links[n].tgt, links[n].d2 = "-">>)
         ELSE LinksOnSide(links, n - 1, flipped)

\* the (identifier, orientation) pairs of the roots of a tuple of trees
Roots(trees) == [k \in 1..Len(trees) |-> <<trees[k][1].ID, trees[k][1].flipped>>]

\* the children a frame has called so far: the ones that returned and the
\* one that is running
CalledBy(j) ==
    Roots(stack[j].branches) \o
    (IF j < Len(stack) THEN <<<<stack[j + 1].ID, stack[j + 1].flip_flag>>>> ELSE <<>>)

\* every node of tree t (its root at depth d) below maxdepth has as children
\* the links of its header that are on its side, in header order
RECURSIVE TreeFollowsLinks(_, _)
TreeFollowsLinks(t, d) ==
    d < maxdepth =>
        /\ Roots(t[2]) = LinksOnSide(WrittenLinks(t[1].ID),
                                     Len(WrittenLinks(t[1].ID)), t[1].flipped)
        /\ \A k \in 1..Len(t[2]) : TreeFollowsLinks(t[2][k], d + 1)

\* C3: at every node below maxdepth the children are exactly the links of
\* its header whose near side equals the node's orientation, in header
\* order; each child is visited with the link's target, with the link's far
\* side as orientation and one level deeper; other links give no child.
C3_OrientationFilter ==
    /\ \A j \in 1..Len(stack) :
          /\ stack[j].this_segment.ID = stack[j].ID
          /\ stack[j].this_segment.flipped = stack[j].flip_flag
          /\ j < Len(stack) => stack[j + 1].depth = stack[j].depth + 1
          /\ stack[j].depth < maxdepth =>
                CalledBy(j) = LinksOnSide(WrittenLinks(stack[j].ID),
                                          stack[j].i - 1, stack[j].flip_flag)
    /\ ret # <<>> => TreeFollowsLinks(ret, 0)

\* C3 happens: a returned tree whose root, below maxdepth, has links written
\* for both sides and exactly one child
C3_Witness ==
    /\ ret # <<>>
    /\ maxdepth >= 1
    /\ \E a, b \in 1..Len(WrittenLinks(ret[1].ID)) :
          /\ WrittenLinks(ret[1].ID)[a].d1 = "-"
          /\ WrittenLinks(ret[1].ID)[b].d1 = "+"
    /\ Len(ret[2]) = 1

\* no node of tree t (its root at depth d) is deeper than maxdepth
RECURSIVE TreeWithinDepth(_, _)
TreeWithinDepth(t, d) ==
    /\ d <= maxdepth
    /\ d = maxdepth => t[2] = <<>>
    /\ \A k \in 1..Len(t[2]) : TreeWithinDepth(t[2][k], d + 1)

\* C4: every visited node has a depth from 0 to maxdepth; a node at
\* maxdepth has its Segment created and listed but no child, and no link of
\* it is parsed; with maxdepth 0 the tree is a root without children.
C4_DepthBound ==
    /\ \A j \in 1..Len(stack) :
          /\ 0 <= stack[j].depth /\ stack[j].depth <= maxdepth
          /\ \E k \in 1..Len(segments) : segments[k] = stack[j].this_segment
          /\ stack[j].depth = maxdepth =>
                /\ j = Len(stack)
                /\ stack[j].i = 1
                /\ stack[j].branches = <<>>
                /\ err.msg \notin {"Unable to parse link", "invalid literal for int()"}
    /\ ret # <<>> => TreeWithinDepth(ret, 0)
    /\ (ret # <<>> /\ maxdepth = 0) => ret[2] = <<>>

\* C4 happens: with maxdepth 0 a tree is returned for a root whose header
\* has a link on the side walked and a link token that does not parse
C4_Witness ==
    /\ maxdepth = 0
    /\ ret # <<>>
    /\ ret[2] = <<>>
    /\ LinksOnSide(WrittenLinks(ret[1].ID), Len(WrittenLinks(ret[1].ID)),
                   ret[1].flipped) # <<>>
    /\ \E k \in 1..Len(RecordOf(ret[1].ID).toks) :
          RecordOf(ret[1].ID).toks[k] = Raw(<<"L", ":", "+", ":", "1">>)

\* C5: the dict has exactly one entry for each identifier in the list, and
\* the entry is the last Segment of the list with that identifier.
C5_LastWriteWins ==
    mpc = "done" =>
        /\ DOMAIN uniq = {segments[k].ID : k \in 1..Len(segments)}
        /\ \A id \in DOMAIN uniq :
              uniq[id] = segments[SetMax({k \in 1..Len(segments) :
                                             segments[k].ID = id})]

\* C5 happens: an identifier is listed with both orientations and the dict
\* holds the later Segment, which differs from the earlier one
C5_Witness ==
    /\ mpc = "done"
    /\ \E a, b \in 1..Len(segments) :
          /\ a < b
          /\ segments[a].ID = segments[b].ID
          /\ segments[a].flipped # segments[b].flipped
          /\ segments[a].seq # segments[b].seq
          /\ uniq[segments[a].ID] = segments[b]

\* the Segments of a tree in pre-order
RECURSIVE Preorder(_)
RECURSIVE PreorderAll(_, _)
Preorder(t) == <<t[1]>> \o PreorderAll(t[2], Len(t[2]))
PreorderAll(trees, n) ==
    IF n = 0 THEN <<>>
    ELSE PreorderAll(trees, n - 1) \o Preorder(trees[n])

\* C10: a top-level call leaves the entries already in the list unchanged,
\* and when it returns it has appended exactly the Segments of the returned
\* tree in pre-order, one entry for every visit of an identifier.
C10_AppendPreorder ==
    /\ Len(seg0) <= Len(segments)
    /\ SubSeq(segments, 1, Len(seg0)) = seg0
    /\ (ret # <<>> /\ mpc \in {"main", "done"}) =>
          segments = seg0 \o Preorder(ret)

\* C10 happens: a call made with a list that is not empty returns a tree in
\* which an identifier is visited twice
C10_Witness ==
    /\ ret # <<>>
    /\ mpc = "main"
    /\ seg0 # <<>>
    /\ \E a, b \in 1..Len(Preorder(ret)) :
          a < b /\ Preorder(ret)[a].ID = Preorder(ret)[b].ID

====
